---------------------------- MODULE Spec2Model ----------------------------
(***************************************************************************)
(* RC522 contactless-reader driver (src/main.ts, namespace RC522).         *)
(*                                                                         *)
(* The driver is single-threaded.  Every register access is one bus        *)
(* transaction of four bus events (chip-select low, address byte, data     *)
(* byte, chip-select high); the model takes one step per bus event, and    *)
(* the code between two register accesses runs with the step that ends the *)
(* earlier access.  Program positions are named after source lines.        *)
(*                                                                         *)
(* The chip is the environment.  Registers the driver reads back after     *)
(* writing them (BitFramingReg, TxControlReg) keep the last value written; *)
(* every other register read returns any value of a small set chosen to    *)
(* exercise the bits the driver tests.                                     *)
(***************************************************************************)
EXTENDS Integers, Sequences, FiniteSets, TLC

VARIABLES
    initialized,  \* _initialized
    spiFreq,      \* clock rate set by spiSetup (0: never configured)
    op,           \* the function the caller invoked
    pc,           \* position in the driver; "idle" when no call is in progress
    f,            \* parameters and locals of the functions in progress
    ret,          \* value returned by the last call, with its type
    now,          \* input.runningTime()
    chip,         \* registers of the chip that hold what was written to them
    cs,           \* level of the chip-select pin _sdaPin (0 asserted)
    phase,        \* position inside writeRegister / readRegister
    rw,           \* parameters and locals of writeRegister / readRegister
    rmw,          \* position inside setBitMask / clearBitMask
    mosi,         \* bytes handed to pins.spiWrite in the current transaction
    miso,         \* byte returned by the last pins.spiRead
    nxfer,        \* byte transfers since chip-select was last driven low
    busUsed,      \* the current call has driven chip-select or the bus
    wlog,         \* register writes made by the init() or
                  \* communicateWithPICC() call in progress
    lastInit      \* register writes of the init() call that ended just before

progVars == <<initialized, spiFreq, op, pc, f, ret, now, lastInit, rmw>>
vars     == <<initialized, spiFreq, op, pc, f, ret, now, lastInit,
              chip, cs, phase, rw, rmw, mosi, miso, nxfer, busUsed, wlog>>

---------------------------------------------------------------------------
(* Registers, commands and card commands, as numbered in the source.       *)

CommandReg    == 1
CommIEnReg    == 2
CommIrqReg    == 4
DivIrqReg     == 5
ErrorReg      == 6
FIFODataReg   == 9
FIFOLevelReg  == 10
ControlReg    == 12
BitFramingReg == 13
ModeReg       == 17
TxControlReg  == 20
TxAutoReg     == 21
CRCResultHigh == 33
CRCResultLow  == 34
TModeReg      == 42
TPrescalerReg == 43
TReloadRegH   == 44
TReloadRegL   == 45

PCD_IDLE       == 0
PCD_CALCCRC    == 3
PCD_TRANSMIT   == 4
PCD_RECEIVE    == 8
PCD_TRANSCEIVE == 12
PCD_AUTHENT    == 14
PCD_RESETPHASE == 15

PICC_REQIDL   == 38
PICC_ANTICOLL == 147
PICC_HALT     == 80

DefaultTimeoutMs == 200
CrcPolls         == 255
SpiHz            == 1000000
MaxRegArg        == 255

---------------------------------------------------------------------------
(* Bounds of the model.                                                    *)

TickMs       == 50     \* the clock advances in steps of this many ms
MaxFifoLevel == 6      \* largest FIFO level the chip reports

---------------------------------------------------------------------------
(* Bit operations on non-negative integers, as JavaScript's &, |, ^.       *)

RECURSIVE BitAnd(_, _)
BitAnd(a, b) ==
    IF a = 0 \/ b = 0 THEN 0
    ELSE (a % 2) * (b % 2) + 2 * BitAnd(a \div 2, b \div 2)

RECURSIVE BitOr(_, _)
BitOr(a, b) ==
    IF a = 0 THEN b
    ELSE IF b = 0 THEN a
    ELSE (IF a % 2 = 1 \/ b % 2 = 1 THEN 1 ELSE 0) + 2 * BitOr(a \div 2, b \div 2)

RECURSIVE BitXor(_, _)
BitXor(a, b) ==
    IF a = 0 THEN b
    ELSE IF b = 0 THEN a
    ELSE ((a + b) % 2) + 2 * BitXor(a \div 2, b \div 2)

\* the bits of m left as they are
BitKeep(a, m) == a

\* a & (~m) for a >= 0: the bits of m cleared in a
BitClear(a, m) == a - BitAnd(a, m)

---------------------------------------------------------------------------
(* The chip, seen from the bus.                                            *)

\* the register a framed address byte selects, and its direction bit
FrameReg(address)    == (address \div 2) % 64
FrameIsRead(address) == (address \div 128) % 2 = 1

\* values the chip may return for a register it does not simply hold
ReadValues(reg) ==
    CASE reg = CommIrqReg    -> {0, 1, 32, 33, 132}
      [] reg = ErrorReg      -> {0, 4, 9}
      [] reg = DivIrqReg     -> {0, 4, 16}
      [] reg = FIFOLevelReg  -> {0, 4, 5, MaxFifoLevel}
      [] reg = FIFODataReg   -> {0, 165}
      [] reg = ControlReg    -> {0, 16, 23}
      [] reg = CRCResultLow  -> {18, 239}
      [] reg = CRCResultHigh -> {18, 239}
      [] OTHER               -> {0, 255}

\* the byte clocked back by pins.spiRead() after a framed address
ChipRead(c, address) ==
    IF FrameReg(address) \in DOMAIN c
    THEN {c[FrameReg(address)]}
    ELSE ReadValues(FrameReg(address))

\* the effect of pins.spiWrite(val) after a framed address
ChipWrite(c, address, v) ==
    IF ~FrameIsRead(address) /\ FrameReg(address) \in DOMAIN c
    THEN [c EXCEPT ![FrameReg(address)] = v % 256]
    ELSE c

---------------------------------------------------------------------------
(* Register access layer.                                                  *)

\* the register address sent as it is
WriteAddressRaw(addr) == addr

\* main.ts:64 and main.ts:72
WriteAddress(addr) == BitAnd(addr * 2, 126)
ReadAddress(addr)  == BitOr(BitAnd(addr * 2, 126), 128)

\* no register access in progress: the locals of writeRegister and
\* readRegister, and the record of the transaction, end with the access
NoAccess == [fn |-> "none", addr |-> 0, val |-> 0, address |-> 0]

\* a register access that leaves chip-select low
DeselectMissing == cs' = cs

\* pins.digitalWritePin(_sdaPin, 0) and pins.digitalWritePin(_sdaPin, 1)
SelectChip   == cs' = 0
DeselectChip == cs' = 1

\* the positions inside communicateWithPICC
CommLabels == {"L135", "L148", "L149", "L150", "L151", "L153", "L157", "L159",
               "L163", "L166", "L172", "L174", "L175", "L180", "L181", "L184"}

\* what is recorded of a register write: the register and the value; of a
\* write to a register whose other bits the chip sets on its own
\* (CommIrqReg, FIFOLevelReg), the register and bit 7 of the value
Logged(addr, v) ==
    IF addr \in {CommIrqReg, FIFOLevelReg} THEN <<addr, BitAnd(v, 128)>>
    ELSE <<addr, v>>

\* writeRegister(addr, v), then Cont, which says what the caller does next
\* (every variable of progVars)
writeRegister(addr, v, Cont) ==
    \/ /\ phase = "idle"
       /\ rw' = [fn |-> "writeRegister", addr |-> addr, val |-> v,
                 address |-> WriteAddress(addr)]
       /\ SelectChip
       /\ phase' = "selected"
       /\ mosi' = <<>>
       /\ nxfer' = 0
       /\ busUsed' = TRUE
       /\ UNCHANGED <<chip, miso, wlog, progVars>>
    \/ /\ phase = "selected" /\ rw.fn = "writeRegister"
       /\ mosi' = Append(mosi, rw.address)
       /\ nxfer' = nxfer + 1
       /\ phase' = "addressed"
       /\ UNCHANGED <<chip, cs, rw, miso, busUsed, wlog, progVars>>
    \/ /\ phase = "addressed" /\ rw.fn = "writeRegister"
       /\ mosi' = Append(mosi, rw.val)
       /\ nxfer' = nxfer + 1
       /\ chip' = ChipWrite(chip, rw.address, rw.val)
       /\ phase' = "transferred"
       /\ UNCHANGED <<cs, rw, miso, busUsed, wlog, progVars>>
    \/ /\ phase = "transferred" /\ rw.fn = "writeRegister"
       /\ DeselectChip
       /\ phase' = "idle"
       /\ wlog' = IF op = "init" \/ pc \in CommLabels
                THEN Append(wlog, Logged(rw.addr, rw.val))
                ELSE wlog
       /\ rw' = NoAccess
       /\ mosi' = <<>>
       /\ nxfer' = 0
       /\ UNCHANGED <<chip, miso, busUsed>>
       /\ Cont

\* readRegister(addr), then Cont, which finds the value read in miso
readRegister(addr, Cont) ==
    \/ /\ phase = "idle"
       /\ rw' = [fn |-> "readRegister", addr |-> addr, val |-> 0,
                 address |-> ReadAddress(addr)]
       /\ SelectChip
       /\ phase' = "selected"
       /\ mosi' = <<>>
       /\ nxfer' = 0
       /\ busUsed' = TRUE
       /\ UNCHANGED <<chip, miso, wlog, progVars>>
    \/ /\ phase = "selected" /\ rw.fn = "readRegister"
       /\ mosi' = Append(mosi, rw.address)
       /\ nxfer' = nxfer + 1
       /\ phase' = "addressed"
       /\ UNCHANGED <<chip, cs, rw, miso, busUsed, wlog, progVars>>
    \/ /\ phase = "addressed" /\ rw.fn = "readRegister"
       /\ \E v \in ChipRead(chip, rw.address) : miso' = v
       /\ nxfer' = nxfer + 1
       /\ phase' = "transferred"
       /\ UNCHANGED <<chip, cs, rw, mosi, busUsed, wlog, progVars>>
    \/ /\ phase = "transferred" /\ rw.fn = "readRegister"
       /\ DeselectChip
       /\ phase' = "idle"
       /\ rw' = NoAccess
       /\ mosi' = <<>>
       /\ miso' = 0
       /\ nxfer' = 0
       /\ UNCHANGED <<chip, busUsed, wlog>>
       /\ Cont

---------------------------------------------------------------------------
(* What the caller does when a register access, or a statement that uses   *)
(* no register, has ended.                                                 *)

\* setBitMask / clearBitMask not in progress; tmp is their local
NoRmw == [at |-> "read", tmp |-> 0]

Goto(l) ==
    /\ pc' = l
    /\ rmw' = NoRmw
    /\ UNCHANGED <<initialized, spiFreq, op, f, ret, now, lastInit>>

GotoF(l, nf) ==
    /\ pc' = l
    /\ f' = nf
    /\ rmw' = NoRmw
    /\ UNCHANGED <<initialized, spiFreq, op, ret, now, lastInit>>

\* line 176
NoResult == [status |-> FALSE, backData |-> <<>>, backBits |-> 0]

\* a return value: its TypeScript type and, under that type's name, the
\* value; Void is also what ret holds while no value has been returned
Void == [type |-> "void", boolean |-> FALSE, number |-> 0, string |-> <<>>,
         result |-> NoResult, bytes |-> <<>>]
Boolean(b) == [Void EXCEPT !.type = "boolean", !.boolean = b]
Number(n)  == [Void EXCEPT !.type = "number", !.number = n]
String(str) == [Void EXCEPT !.type = "string", !.string = str]
Result(r)  == [Void EXCEPT !.type = "result", !.result = r]
Bytes(b)   == [Void EXCEPT !.type = "number[]", !.bytes = b]

Return(v) ==
    /\ pc' = "done"
    /\ ret' = v
    /\ rmw' = NoRmw
    /\ UNCHANGED <<initialized, spiFreq, op, f, now, lastInit>>

\* a statement that touches neither the bus nor the chip
NoBus == UNCHANGED <<chip, cs, phase, rw, mosi, miso, nxfer, busUsed, wlog>>

\* setBitMask writing the mask alone
SetBitsMaskOnly(tmp, mask) == mask

\* line 82
SetBits(tmp, mask) == BitOr(tmp, mask)

\* setBitMask(reg, mask), then Cont
setBitMask(reg, mask, Cont) ==
    \/ /\ rmw.at = "read"
       /\ readRegister(reg,
            /\ rmw' = [at |-> "write", tmp |-> miso]
            /\ UNCHANGED <<initialized, spiFreq, op, pc, f, ret, now, lastInit>>)
    \/ /\ rmw.at = "write"
       /\ writeRegister(reg, SetBits(rmw.tmp, mask), Cont)

\* clearBitMask(reg, mask), then Cont
clearBitMask(reg, mask, Cont) ==
    \/ /\ rmw.at = "read"
       /\ readRegister(reg,
            /\ rmw' = [at |-> "write", tmp |-> miso]
            /\ UNCHANGED <<initialized, spiFreq, op, pc, f, ret, now, lastInit>>)
    \/ /\ rmw.at = "write"
       /\ writeRegister(reg, BitClear(rmw.tmp, mask), Cont)

\* antennaOn(), entered at "L91", then Cont
\* antennaOn writing whatever it read
AlwaysAntennaWrite(v) == TRUE

NeedsAntennaWrite(v) == BitAnd(v, 3) # 3

\* antennaOn enabling one of the two transmitter pins
AntennaValueOnePin(v) == BitOr(v, 1)

\* line 93
AntennaValue(v) == BitOr(v, 3)

antennaOn(Cont) ==
    \/ /\ pc = "L91"
       /\ readRegister(TxControlReg,
            IF NeedsAntennaWrite(miso)
            THEN GotoF("L93", [f EXCEPT !.val = miso])
            ELSE Cont)
    \/ /\ pc = "L93"
       /\ writeRegister(TxControlReg, AntennaValue(f.val), Cont)

---------------------------------------------------------------------------
(* Locals at the start of a call.                                          *)

F0 == [addr |-> 0, wval |-> 0, val |-> 0,
       command |-> 0, sendData |-> <<>>, timeoutMs |-> 0, retTo |-> "done",
       irqEn |-> 0, waitIRq |-> 0, i |-> 0, start |-> 0, exitBy |-> "none",
       error |-> 0, quiet |-> TRUE, fifoLevel |-> 0, j |-> 0,
       backData |-> <<>>, backBits |-> 0, fifoReads |-> 0, drained |-> FALSE,
       res |-> NoResult,
       buf |-> <<>>, data |-> <<>>, crcRetTo |-> "done", k |-> 0, l |-> 0,
       divReads |-> 0, polls |-> 0, ready |-> FALSE, crcReads |-> <<>>,
       crc |-> <<>>, raced |-> FALSE, racedVal |-> 0]

Init ==
    /\ initialized = FALSE
    /\ spiFreq = 0
    /\ op = "none"
    /\ pc = "idle"
    /\ f = F0
    /\ ret = Void
    /\ now = 0
    /\ chip \in [{BitFramingReg, TxControlReg} -> {0, 128, 129, 131}]
    /\ chip[BitFramingReg] = 0
    /\ chip[TxControlReg] # 0
    /\ cs = 1
    /\ phase = "idle"
    /\ rw = NoAccess
    /\ rmw = NoRmw
    /\ mosi = <<>>
    /\ miso = 0
    /\ nxfer = 0
    /\ busUsed = FALSE
    /\ wlog = <<>>
    /\ lastInit = <<>>

\* the caller invokes function name; a call starts only when none is in progress
Call(name, first, nf) ==
    /\ pc = "idle"
    /\ op' = name
    /\ pc' = first
    /\ f' = nf
    /\ ret' = Void
    /\ busUsed' = FALSE
    /\ lastInit' = IF name = "init" THEN lastInit ELSE <<>>
    /\ UNCHANGED <<initialized, spiFreq, now, rmw, chip, cs, phase, rw, mosi,
                   miso, nxfer, wlog>>

\* the caller has the result of the call that ended; its locals are gone
Returned ==
    /\ pc = "done"
    /\ pc' = "idle"
    /\ op' = "none"
    /\ f' = F0
    /\ ret' = Void
    /\ lastInit' = IF op = "init" THEN wlog ELSE <<>>
    /\ wlog' = <<>>
    /\ UNCHANGED <<initialized, spiFreq, now, rmw, chip, cs, phase, rw, mosi,
                   miso, nxfer, busUsed>>

---------------------------------------------------------------------------
(* init() with its default pins.                                           *)

CallInit == Call("init", "L199", F0)

init ==
    /\ op = "init"
    /\ \/ /\ pc = "L199"          \* lines 199-204: pins, then spiSetup()
          /\ DeselectChip
          /\ spiFreq' = SpiHz
          /\ pc' = "L205"
          /\ busUsed' = TRUE
          /\ UNCHANGED <<initialized, op, f, ret, now, lastInit, rmw, chip,
                         phase, rw, mosi, miso, nxfer, wlog>>
       \/ pc = "L205" /\ writeRegister(CommandReg, PCD_RESETPHASE, Goto("L206"))
       \/ pc = "L206" /\ writeRegister(TModeReg, 141, Goto("L207"))
       \/ pc = "L207" /\ writeRegister(TPrescalerReg, 62, Goto("L208"))
       \/ pc = "L208" /\ writeRegister(TReloadRegL, 30, Goto("L209"))
       \/ pc = "L209" /\ writeRegister(TReloadRegH, 0, Goto("L210"))
       \/ pc = "L210" /\ writeRegister(TxAutoReg, 64, Goto("L211"))
       \/ pc = "L211" /\ writeRegister(ModeReg, 61, Goto("L91"))
       \/ antennaOn(Goto("L213"))
       \/ /\ pc = "L213"
          /\ initialized' = TRUE
          /\ pc' = "done"
          /\ UNCHANGED <<spiFreq, op, f, ret, now, lastInit, rmw>>
          /\ NoBus

---------------------------------------------------------------------------
(* readReg(addr)                                                           *)

RawAddrs == {0, BitFramingReg, TxControlReg, 63, 64, 77, MaxRegArg}

CallReadReg == \E a \in RawAddrs : Call("readReg", "L285", [F0 EXCEPT !.addr = a])

readReg ==
    /\ op = "readReg"
    /\ pc = "L285"
    /\ readRegister(f.addr, Return(Number(miso)))

---------------------------------------------------------------------------
(* toHexString(arr): a string is modelled as the sequence of its           *)
(* characters.                                                             *)

HexLower == <<"0", "1", "2", "3", "4", "5", "6", "7", "8", "9",
              "a", "b", "c", "d", "e", "f">>

\* String.toUpperCase() on one character of a hex string
UpperChar(c) ==
    CASE c = "a" -> "A" [] c = "b" -> "B" [] c = "c" -> "C"
      [] c = "d" -> "D" [] c = "e" -> "E" [] c = "f" -> "F"
      [] OTHER -> c

\* Number.toString(16) of a byte
ToString16(t) ==
    IF t < 16 THEN <<HexLower[t + 1]>>
    ELSE <<HexLower[(t \div 16) + 1], HexLower[(t % 16) + 1]>>

\* lines 125-127: one byte as two lower-case hex digits
HexByte(b) ==
    LET t == BitAnd(b, 255)
        h == ToString16(t)
    IN  IF Len(h) = 1 THEN <<"0">> \o h ELSE h

RECURSIVE HexJoin(_, _)
HexJoin(arr, i) ==
    IF i > Len(arr) THEN <<>>
    ELSE HexByte(arr[i]) \o (IF i < Len(arr) THEN <<":">> ELSE <<>>)
         \o HexJoin(arr, i + 1)

toHexString(arr) ==
    LET s == HexJoin(arr, 1) IN [n \in 1..Len(s) |-> UpperChar(s[n])]

---------------------------------------------------------------------------
(* communicateWithPICC(command, sendData, timeoutMs), entered at "L135";   *)
(* it returns to f.retTo with its result in f.res.                         *)

\* the caller's locals on entry to communicateWithPICC
Enter(fr, command, sendData, timeoutMs, retTo) ==
    [fr EXCEPT !.command = command, !.sendData = sendData,
               !.timeoutMs = timeoutMs, !.retTo = retTo]

\* the wait loop without its software timeout
TimedOutNever(t, start, timeoutMs) == FALSE

\* line 167, line 168 and line 169
WaitFlagSeen(n, waitIRq)          == BitAnd(n, waitIRq) # 0
TimerSeen(n)                      == BitAnd(n, 1) # 0
TimedOut(t, start, timeoutMs)     == t - start > timeoutMs

\* line 175
\* the validate step without its error-register test
FailedTimerOnly(irq, error) == BitAnd(irq, 1) # 0

Failed(irq, error) == BitAnd(irq, 1) # 0 \/ BitAnd(error, 27) # 0

\* the chip shows neither a wait flag (0x30) nor the timer flag (0x01)
Silent(n) == BitAnd(n, 49) = 0

\* a break of the wait loop; the clock is not read again in this call
ExitWait(why, n) ==
    /\ pc' = "L172"
    /\ f' = [f EXCEPT !.exitBy = why, !.quiet = f.quiet /\ Silent(n)]
    /\ now' = 0
    /\ rmw' = NoRmw
    /\ UNCHANGED <<initialized, spiFreq, op, ret, lastInit>>

ReturnComm(r) == GotoF(f.retTo, [f EXCEPT !.res = r])

\* the control register's value taken whole
ValidBitsRaw(control) == control

\* line 184
ValidBits(control) == BitAnd(control, 7)

StartTimes == {0, 1000}

\* the send bytes taken from the last to the first
SendByteReversed(sendData, i) == sendData[Len(sendData) - i]

\* line 154: sendData[i], i counted from 0
SendByte(sendData, i) == sendData[i + 1]

communicateWithPICC ==
    \/ /\ pc = "L135"              \* lines 135-146
       /\ GotoF("L148",
            [f EXCEPT !.backData = <<>>, !.backBits = 0,
                      !.irqEn = IF f.command = PCD_TRANSCEIVE THEN 119 ELSE 18,
                      !.waitIRq = IF f.command = PCD_TRANSCEIVE THEN 48 ELSE 0])
       /\ wlog' = <<>>
       /\ UNCHANGED <<chip, cs, phase, rw, mosi, miso, nxfer, busUsed>>
    \/ pc = "L148" /\ writeRegister(CommIEnReg, BitOr(f.irqEn, 128), Goto("L149"))
    \/ pc = "L149" /\ clearBitMask(CommIrqReg, 128, Goto("L150"))
    \/ pc = "L150" /\ setBitMask(FIFOLevelReg, 128, Goto("L151"))
    \/ pc = "L151" /\ writeRegister(CommandReg, PCD_IDLE,
                                       GotoF("L153", [f EXCEPT !.i = 0]))
    \/ /\ pc = "L153" /\ f.i < Len(f.sendData)
       /\ writeRegister(FIFODataReg, SendByte(f.sendData, f.i),
                        GotoF("L153", [f EXCEPT !.i = f.i + 1]))
    \/ /\ pc = "L153" /\ ~(f.i < Len(f.sendData))
       /\ Goto("L157")
       /\ NoBus
    \/ pc = "L157" /\ writeRegister(CommandReg, f.command,
                         IF f.command = PCD_TRANSCEIVE
                         THEN Goto("L159") ELSE Goto("L163"))
    \/ pc = "L159" /\ setBitMask(BitFramingReg, 128, Goto("L163"))
    \/ /\ pc = "L163"              \* lines 163-164: the clock is read
       /\ \E t \in StartTimes :
            /\ now' = t
            /\ pc' = "L166"
            /\ f' = [f EXCEPT !.i = 0, !.start = t]
       /\ UNCHANGED <<initialized, spiFreq, op, ret, lastInit, rmw>>
       /\ NoBus
    \/ /\ pc = "L166"              \* one poll of the wait loop, lines 166-169
       /\ readRegister(CommIrqReg,
            IF WaitFlagSeen(miso, f.waitIRq)
            THEN ExitWait("waitIRq", miso)
            ELSE IF TimerSeen(miso)
            THEN ExitWait("timer", miso)
            ELSE IF TimedOut(now, f.start, f.timeoutMs)
            THEN ExitWait("timeout", miso)
            ELSE GotoF("L166", [f EXCEPT !.quiet = f.quiet /\ Silent(miso)]))
    \/ pc = "L172" /\ clearBitMask(BitFramingReg, 128, Goto("L174"))
    \/ pc = "L174" /\ readRegister(ErrorReg,
                                      GotoF("L175", [f EXCEPT !.error = miso]))
    \/ /\ pc = "L175"
       /\ readRegister(CommIrqReg,
            LET g == [f EXCEPT !.quiet = f.quiet /\ Silent(miso) /\ f.error = 0,
                               !.error = 0]
            IN  IF Failed(miso, f.error)
                THEN GotoF(f.retTo, [f EXCEPT !.quiet = FALSE, !.res = NoResult])
                ELSE IF f.command = PCD_TRANSCEIVE
                THEN GotoF("L180", g)
                ELSE GotoF(f.retTo,
                       [g EXCEPT !.res = [status |-> TRUE,
                                          backData |-> f.backData,
                                          backBits |-> f.backBits]]))
    \/ pc = "L180" /\ readRegister(FIFOLevelReg,
                        GotoF("L181", [f EXCEPT !.fifoLevel = miso, !.j = 0,
                                                !.drained = TRUE]))
    \/ /\ pc = "L181" /\ f.j < f.fifoLevel
       /\ readRegister(FIFODataReg,
            GotoF("L181", [f EXCEPT !.backData = Append(f.backData, miso),
                                    !.j = f.j + 1,
                                    !.fifoReads = f.fifoReads + 1]))
    \/ /\ pc = "L181" /\ ~(f.j < f.fifoLevel)
       /\ Goto("L184")
       /\ NoBus
    \/ /\ pc = "L184"
       /\ readRegister(ControlReg,
            ReturnComm([status |-> TRUE, backData |-> f.backData,
                        backBits |-> ValidBits(miso)]))

\* the clock advances while the wait loop polls
Tick ==
    /\ pc = "L166"
    /\ now - f.start <= f.timeoutMs
    /\ now' = now + TickMs
    /\ UNCHANGED <<initialized, spiFreq, op, pc, f, ret, lastInit, rmw>>
    /\ NoBus

\* communicateWithPICC called on its own
Commands == {PCD_IDLE, PCD_AUTHENT, PCD_TRANSMIT, PCD_TRANSCEIVE}
CommArgs == {[sendData |-> <<>>, timeoutMs |-> TickMs],
             [sendData |-> <<PICC_REQIDL>>, timeoutMs |-> DefaultTimeoutMs]}

CallCommunicate ==
    \E c \in Commands, a \in CommArgs :
        Call("communicateWithPICC", "L135",
             Enter(F0, c, a.sendData, a.timeoutMs, "L188"))

communicateReturn ==
    /\ op = "communicateWithPICC"
    /\ pc = "L188"
    /\ Return(Result(f.res))
    /\ NoBus

---------------------------------------------------------------------------
(* calculateCRC(data), entered at "L102"; it returns to f.crcRetTo with    *)
(* its result in f.crc.                                                    *)

CrcReady(n) == BitAnd(n, 4) # 0

\* the two result bytes in the other order
CrcResultSwapped(l, h) == <<h, l>>

\* line 116
CrcResult(l, h) == <<l, h>>

ReturnCrc(r) == GotoF(f.crcRetTo, [f EXCEPT !.crc = r])

calculateCRC ==
    \/ pc = "L102" /\ writeRegister(CommandReg, PCD_IDLE, Goto("L103"))
    \/ /\ pc = "L103"
       \* the read-modify-write reads DivIrqReg once
       /\ setBitMask(DivIrqReg, 4,
                     GotoF("L104", [f EXCEPT !.divReads = f.divReads + 1]))
    \/ pc = "L104" /\ writeRegister(FIFOLevelReg, 128,
                                       GotoF("L105", [f EXCEPT !.k = 0]))
    \/ /\ pc = "L105" /\ f.k < Len(f.data)
       /\ writeRegister(FIFODataReg, f.data[f.k + 1],
                        GotoF("L105", [f EXCEPT !.k = f.k + 1]))
    \/ /\ pc = "L105" /\ ~(f.k < Len(f.data))
       /\ Goto("L108")
       /\ NoBus
    \/ pc = "L108" /\ writeRegister(CommandReg, PCD_CALCCRC,
                                       GotoF("L110", [f EXCEPT !.k = 0]))
    \/ /\ pc = "L110" /\ f.k < CrcPolls
       /\ readRegister(DivIrqReg,
            IF CrcReady(miso)
            THEN GotoF("L114", [f EXCEPT !.divReads = f.divReads + 1,
                                         !.polls = f.polls + 1,
                                         !.ready = TRUE])
            ELSE GotoF("L110", [f EXCEPT !.divReads = f.divReads + 1,
                                         !.polls = f.polls + 1,
                                         !.k = f.k + 1]))
    \/ /\ pc = "L110" /\ ~(f.k < CrcPolls)
       /\ ReturnCrc(<<0, 0>>)
       /\ NoBus
    \/ /\ pc = "L114"
       /\ readRegister(CRCResultLow,
            GotoF("L115", [f EXCEPT !.l = miso,
                     !.crcReads = Append(f.crcReads, <<rw.addr, miso>>)]))
    \/ /\ pc = "L115"
       /\ readRegister(CRCResultHigh,
            GotoF(f.crcRetTo,
                  [f EXCEPT !.crc = CrcResult(f.l, miso), !.l = 0,
                     !.crcReads = Append(f.crcReads, <<rw.addr, miso>>)]))

\* calculateCRC called on its own
CrcBufs == {<<>>, <<PICC_HALT, 0>>}

CallCalculateCRC ==
    \E d \in CrcBufs :
        Call("calculateCRC", "L102",
             [F0 EXCEPT !.data = d, !.crcRetTo = "L120"])

calculateCRCReturn ==
    /\ op = "calculateCRC"
    /\ pc = "L120"
    /\ Return(Bytes(f.crc))
    /\ NoBus

---------------------------------------------------------------------------
(* The guard that opens tagPresent, readUID and haltTag.                   *)

\* the values tagPresent and readUID write to BitFramingReg: 7 bits of the
\* last byte are sent (lines 222 and 235), all 8 (line 244)
SevenBitFrame == 7

\* the framing of the request kept for the next frame
FullByteFrameMissing == SevenBitFrame

FullByteFrame == 0

\* the operations without their guard
NotReadyNever == FALSE

NotReady == ~initialized

---------------------------------------------------------------------------
(* tagPresent()                                                            *)

CallTagPresent == Call("tagPresent", "L221", F0)

tagPresent ==
    /\ op = "tagPresent"
    /\ \/ /\ pc = "L221"
          /\ IF NotReady THEN Return(Boolean(FALSE)) ELSE Goto("L222")
          /\ NoBus
       \/ /\ pc = "L222"
          /\ writeRegister(BitFramingReg, SevenBitFrame,
               GotoF("L135", Enter(f, PCD_TRANSCEIVE, <<PICC_REQIDL>>,
                                   DefaultTimeoutMs, "L225")))
       \/ /\ pc = "L225"
          /\ Return(Boolean(f.res.status /\ Len(f.res.backData) > 0))
          /\ NoBus

---------------------------------------------------------------------------
(* readUID()                                                               *)

\* readUID rejecting a response whose check byte does not match
UidStringChecked(backData) ==
    LET uid  == SubSeq(backData, 1, 5)
        bcc  == BitXor(BitXor(BitXor(uid[1], uid[2]), uid[3]), uid[4])
        uid4 == SubSeq(uid, 1, 4)
    IN  IF bcc # uid[5] THEN <<>> ELSE toHexString(uid4)

\* lines 252-263
UidString(backData) ==
    LET uid  == SubSeq(backData, 1, 5)
        bcc  == BitXor(BitXor(BitXor(uid[1], uid[2]), uid[3]), uid[4])
        uid4 == SubSeq(uid, 1, 4)
    IN  IF bcc # uid[5] THEN toHexString(uid4) ELSE toHexString(uid4)

\* the REQUEST check without its test for an empty response
NoCardStatusOnly(res) == ~res.status

\* line 239
NoCard(res) == ~res.status \/ Len(res.backData) = 0

\* the ANTICOLLISION check asking for one byte more
NoUidUnderSix(res) == ~res.status \/ Len(res.backData) < 6

\* line 247
NoUid(res) == ~res.status \/ Len(res.backData) < 5

CallReadUID == Call("readUID", "L233", F0)

readUID ==
    /\ op = "readUID"
    /\ \/ /\ pc = "L233"
          /\ IF NotReady THEN Return(String(<<>>)) ELSE Goto("L235")
          /\ NoBus
       \/ /\ pc = "L235"
          /\ writeRegister(BitFramingReg, SevenBitFrame,
               GotoF("L135", Enter(f, PCD_TRANSCEIVE, <<PICC_REQIDL>>,
                                   DefaultTimeoutMs, "L239")))
       \/ /\ pc = "L239"
          /\ IF NoCard(f.res) THEN Return(String(<<>>)) ELSE GotoF("L244", F0)
          /\ NoBus
       \/ /\ pc = "L244"
          /\ writeRegister(BitFramingReg, FullByteFrame,
               GotoF("L135", Enter(F0, PCD_TRANSCEIVE, <<PICC_ANTICOLL, 32>>,
                                   DefaultTimeoutMs, "L247")))
       \/ /\ pc = "L247"
          /\ IF NoUid(f.res)
             THEN Return(String(<<>>)) ELSE Return(String(UidString(f.res.backData)))
          /\ NoBus

---------------------------------------------------------------------------
(* haltTag()                                                               *)

CallHaltTag == Call("haltTag", "L271", F0)

haltTag ==
    /\ op = "haltTag"
    /\ \/ /\ pc = "L271"
          /\ IF NotReady
             THEN Return(Void)
             ELSE GotoF("L102", [f EXCEPT !.buf = <<PICC_HALT, 0>>,
                                          !.data = <<PICC_HALT, 0>>,
                                          !.crcRetTo = "L274"])
          /\ NoBus
       \/ /\ pc = "L274"           \* lines 274-276
          /\ GotoF("L135",
               Enter([F0 EXCEPT !.buf = f.buf \o f.crc], PCD_TRANSCEIVE,
                     f.buf \o f.crc, DefaultTimeoutMs, "L277"))
          /\ NoBus
       \/ /\ pc = "L277"
          /\ Return(Void)
          /\ NoBus

Next ==
    \/ CallInit
    \/ init
    \/ CallReadReg
    \/ readReg
    \/ CallTagPresent
    \/ tagPresent
    \/ CallReadUID
    \/ readUID
    \/ CallHaltTag
    \/ haltTag
    \/ CallCommunicate
    \/ communicateWithPICC
    \/ communicateReturn
    \/ CallCalculateCRC
    \/ calculateCRC
    \/ calculateCRCReturn
    \/ Tick
    \/ Returned

Spec == Init /\ [][Next]_vars

---------------------------------------------------------------------------
(* The register access layer called on its own, for every address a       *)
(* caller can pass.                                                        *)

RegArgs  == 0..MaxRegArg
ByteArgs == {0, 90, 255}

CallWriteRegister ==
    \E a \in RegArgs, v \in ByteArgs :
        Call("writeRegister", "L64", [F0 EXCEPT !.addr = a, !.wval = v])

CallReadRegister ==
    \E a \in RegArgs : Call("readRegister", "L72", [F0 EXCEPT !.addr = a])

registerAccess ==
    \/ /\ op = "writeRegister" /\ pc = "L64"
       /\ writeRegister(f.addr, f.wval, Return(Void))
    \/ /\ op = "readRegister" /\ pc = "L72"
       /\ readRegister(f.addr, Return(Number(miso)))

NextFraming ==
    \/ CallWriteRegister
    \/ CallReadRegister
    \/ registerAccess
    \/ Returned

SpecFraming == Init /\ [][NextFraming]_vars

---------------------------------------------------------------------------
(* communicateWithPICC called on its own, the processor running and the    *)
(* clock advancing.                                                        *)

CommProgram ==
    \/ CallCommunicate
    \/ communicateWithPICC
    \/ communicateReturn
    \/ Returned

NextComm == CommProgram \/ Tick

SpecComm ==
    Init /\ [][NextComm]_vars /\ WF_vars(CommProgram) /\ WF_vars(Tick)

---------------------------------------------------------------------------
(* setBitMask and clearBitMask called on their own on a register that      *)
(* holds what is written to it, while a second execution context may call  *)
(* writeRegister on the same register between the helper's two bus         *)
(* transactions.  f.raced and f.racedVal record that write.                *)

MaskArgs == {3, 128}

CallSetBitMask ==
    \E r \in DOMAIN chip, m \in MaskArgs :
        Call("setBitMask", "L81", [F0 EXCEPT !.addr = r, !.wval = m])

CallClearBitMask ==
    \E r \in DOMAIN chip, m \in MaskArgs :
        Call("clearBitMask", "L86", [F0 EXCEPT !.addr = r, !.wval = m])

bitMask ==
    \/ /\ op = "setBitMask" /\ pc = "L81"
       /\ setBitMask(f.addr, f.wval, Return(Void))
    \/ /\ op = "clearBitMask" /\ pc = "L86"
       /\ clearBitMask(f.addr, f.wval, Return(Void))

\* writeRegister(f.addr, v) by the second context, as one whole transaction
otherContextWrite ==
    /\ pc \in {"L81", "L86"}
    /\ rmw.at = "write" /\ phase = "idle"
    /\ ~f.raced
    /\ \E v \in ByteArgs :
         /\ chip' = ChipWrite(chip, WriteAddress(f.addr), v)
         /\ f' = [f EXCEPT !.raced = TRUE, !.racedVal = v]
    /\ UNCHANGED <<initialized, spiFreq, op, pc, ret, now, lastInit, rmw,
                   cs, phase, rw, mosi, miso, nxfer, busUsed, wlog>>

NextRace ==
    \/ CallSetBitMask
    \/ CallClearBitMask
    \/ bitMask
    \/ otherContextWrite
    \/ Returned

SpecRace == Init /\ [][NextRace]_vars

---------------------------------------------------------------------------
(* Properties.                                                             *)

\* communicateWithPICC has just returned to its caller; f holds its locals
CommReturned == pc \in {"L188", "L225", "L239", "L247", "L277"}

\* calculateCRC has just returned to its caller
CrcReturned == pc \in {"L120", "L274"}

\* bit k (of value 2^k) of n
BitSet(n, k) == (n \div (2 ^ k)) % 2 = 1

\* the digit a character of an upper-case hex string stands for
HexUpper == <<"0", "1", "2", "3", "4", "5", "6", "7", "8", "9",
              "A", "B", "C", "D", "E", "F">>
HexVal(c) == (CHOOSE n \in 1..16 : HexUpper[n] = c) - 1

\* C1: a TRANSCEIVE call whose wait loop ended on the software timeout,
\* against a chip that showed no wait flag, no timer flag and no error bit,
\* returns status = failure.
C1_SoftwareTimeoutFails ==
    (CommReturned /\ f.command = PCD_TRANSCEIVE /\ f.exitBy = "timeout"
        /\ f.quiet)
    => f.res.status = FALSE

\* C2: when the validate step finds the timer bit (0x01) in CommIrqReg or a
\* bit of mask 0x1B (bits 0, 1, 3, 4) in ErrorReg, the call returns exactly
\* {status: false, receivedBytes: [], validBitsInLastByte: 0} with that
\* step, having read neither the FIFO level nor the FIFO data register for
\* a drain, whatever ended the wait loop.
C2_ErrorTakesPrecedence ==
    [][ (/\ pc = "L175" /\ phase = "transferred"
         /\ \/ BitSet(miso, 0)
            \/ \E k \in {0, 1, 3, 4} : BitSet(f.error, k))
        => (/\ pc' = f.retTo
            /\ f'.res = [status |-> FALSE, backData |-> <<>>, backBits |-> 0]
            /\ f'.fifoReads = 0
            /\ ~f'.drained) ]_vars

C2_Witness ==
    /\ CommReturned
    /\ f.exitBy = "waitIRq"
    /\ BitSet(f.error, 3)
    /\ f.res = [status |-> FALSE, backData |-> <<>>, backBits |-> 0]

\* C3 as stated: before init() has completed, tagPresent, readUID, haltTag
\* and readReg all leave chip-select and the bus alone.
C3_AllOperationsShortCircuit ==
    (~initialized /\ op \in {"tagPresent", "readUID", "haltTag", "readReg"})
    => ~busUsed

\* C3 as amended: before init() has completed, tagPresent, readUID and
\* haltTag leave chip-select and the bus alone and return false, "" and
\* nothing; readReg has no such guard and performs its register read.
C3_GuardedOperationsShortCircuit ==
    /\ (~initialized /\ op \in {"tagPresent", "readUID", "haltTag"})
       => /\ ~busUsed
          /\ cs = 1 /\ phase = "idle"
          /\ pc \in {"L221", "L233", "L271", "done"}
          /\ (pc = "done" /\ op = "tagPresent") => ret = Boolean(FALSE)
          /\ (pc = "done" /\ op = "readUID") => ret = String(<<>>)
          /\ (pc = "done" /\ op = "haltTag") => ret = Void
    /\ (op = "readReg" /\ pc = "done") => busUsed

C3_Witness ==
    /\ ~initialized
    /\ op = "tagPresent" /\ pc = "done"
    /\ ret = Boolean(FALSE)
    /\ ~busUsed

\* C4: in readUID, when the REQUEST_IDLE transceive has returned failure or
\* an empty response, the next step returns "" and touches neither
\* chip-select, the bus nor the chip: no register access follows.
C4_RequestFailureShortCircuits ==
    [][ (/\ op = "readUID" /\ pc = "L239"
         /\ (f.res.status = FALSE \/ f.res.backData = <<>>))
        => (/\ pc' = "done"
            /\ ret' = String(<<>>)
            /\ UNCHANGED <<chip, cs, phase, rw, mosi, miso, nxfer>>) ]_vars

C4_Witness ==
    /\ op = "readUID" /\ pc = "done"
    /\ initialized
    /\ f.retTo = "L239"
    /\ f.res.status /\ f.res.backData = <<>>
    /\ ret = String(<<>>)

\* C5: when both transceive steps succeeded and the ANTICOLLISION response
\* has at least 5 bytes, readUID returns the first 4 received bytes in order
\* (as two upper-case hex digits each, separated by ":"), whatever the 5th
\* byte is.
C5_UidIgnoresChecksum ==
    (/\ op = "readUID" /\ pc = "done"
     /\ f.retTo = "L247"
     /\ f.res.status /\ Len(f.res.backData) >= 5)
    => /\ ret.type = "string" /\ Len(ret.string) = 11
       /\ \A k \in 1..4 :
            16 * HexVal(ret.string[3 * k - 2]) + HexVal(ret.string[3 * k - 1])
                = f.res.backData[k]
       /\ \A k \in 1..3 : ret.string[3 * k] = ":"

C5_Witness ==
    /\ op = "readUID" /\ pc = "done"
    /\ f.retTo = "L247"
    /\ f.res.status /\ Len(f.res.backData) >= 5
    /\ f.res.backData[1] = 165 /\ f.res.backData[2] = 0
    /\ f.res.backData[3] = 0 /\ f.res.backData[4] = 0
    /\ f.res.backData[5] = 0
    /\ ret = String(<<"A", "5", ":", "0", "0", ":", "0", "0", ":", "0", "0">>)

\* C6 as stated: the second of two init() calls in a row makes the same
\* sequence of register writes as the first.
C6_SecondInitWritesSame ==
    (op = "init" /\ pc = "done" /\ lastInit # <<>>) => wlog = lastInit

\* C6 as amended: the second of two init() calls in a row repeats the first
\* call's seven writes (reset, timer, modulation) in order and writes
\* nothing else; the first call makes those seven writes and, only when the
\* transmit-control register did not have both low bits set, an eighth
\* write to that register.
C6_SecondInitRepeatsConfiguration ==
    (op = "init" /\ pc = "done" /\ lastInit # <<>>)
    => /\ Len(wlog) = 7
       /\ wlog = SubSeq(lastInit, 1, 7)
       /\ Len(lastInit) \in {7, 8}
       /\ Len(lastInit) = 8 => lastInit[8][1] = TxControlReg
       /\ \A n \in 1..7 : wlog[n][1] # TxControlReg

C6_Witness ==
    /\ op = "init" /\ pc = "done"
    /\ Len(lastInit) = 8
    /\ Len(wlog) = 7

\* C7: a byte is transferred only while chip-select is asserted; after
\* chip-select is asserted the bus carries the framed address, then one
\* data byte, and chip-select is released after exactly these two
\* transfers; chip-select is released whenever no call is in progress.
C7_ChipSelectBracketing ==
    /\ [](phase # "idle" => cs = 0)
    /\ [](pc \in {"idle", "done"} => cs = 1 /\ phase = "idle")
    /\ [][ (nxfer' # nxfer /\ nxfer' # 0) => (cs = 0 /\ cs' = 0) ]_vars
    /\ [][ (cs = 1 /\ cs' = 0) => (nxfer' = 0 /\ mosi' = <<>>) ]_vars
    /\ [][ (cs = 0 /\ cs' = 0)
           => (nxfer' \in {nxfer, nxfer + 1} /\ nxfer' <= 2) ]_vars
    /\ [][ (nxfer = 0 /\ nxfer' = 1) => mosi' = <<rw.address>> ]_vars
    /\ [][ (cs = 0 /\ cs' = 1) => nxfer = 2 ]_vars

C7_Witness ==
    /\ op = "readUID" /\ pc = "done"
    /\ busUsed
    /\ ret = String(<<>>)
    /\ cs = 1

\* C8: for a register address in 0..63, writeRegister puts exactly the bytes
\* [2 * addr, value] on the bus and readRegister exactly [2 * addr + 128];
\* for every address the first byte of a transaction has bit 0 clear and
\* bit 7 equal to the direction (0 write, 1 read).
C8_FramingLaw ==
    /\ (phase \in {"addressed", "transferred"})
       => /\ ~BitSet(mosi[1], 0)
          /\ BitSet(mosi[1], 7) <=> (op = "readRegister")
          /\ mosi[1] < 256
    /\ (phase = "transferred" /\ f.addr \in 0..63)
       => IF op = "writeRegister"
          THEN mosi = <<2 * f.addr, f.wval>>
          ELSE mosi = <<2 * f.addr + 128>>

C8_Witness ==
    /\ op = "writeRegister"
    /\ phase = "transferred"
    /\ f.addr = 63 /\ f.wval = 255
    /\ mosi = <<126, 255>>

\* C9 as stated (its first clause): a calculateCRC call reads the
\* divider-interrupt register at most 255 times.
C9_AtMost255Reads == CrcReturned => f.divReads <= 255

\* C9 as amended: calculateCRC polls the divider-interrupt register at most
\* 255 times after issuing CALC_CRC (its flag-clearing read-modify-write
\* has read the register once more before that), and returns: when a poll
\* shows the CRC-ready bit it polls no further and returns (value read from
\* register 0x22, value read from register 0x21); when none of 255 polls
\* does, it returns (0, 0) without reading the result registers.
C9_BoundedPollThenResult ==
    /\ [](pc \in {"L110", "L114", "L115", "L120", "L274"}
            => f.polls <= 255 /\ f.divReads = f.polls + 1)
    /\ [](CrcReturned
            => IF f.ready
               THEN f.crcReads = << <<34, f.crc[1]>>, <<33, f.crc[2]>> >>
               ELSE f.polls = 255 /\ f.crc = <<0, 0>> /\ f.crcReads = <<>>)
    /\ [][ (pc = "L110" /\ phase = "transferred" /\ BitSet(miso, 2))
           => (pc' = "L114" /\ f'.ready) ]_vars
    /\ [][ (f.ready /\ f'.ready) => f'.polls = f.polls ]_vars

C9_Witness ==
    /\ CrcReturned
    /\ f.ready
    /\ f.polls = 3
    /\ f.crc = <<18, 239>>

\* C10: every call of communicateWithPICC returns, and a poll of the wait
\* loop that ends with more than timeoutMs elapsed since the loop started
\* leaves the loop.
C10_CommunicateReturns ==
    /\ (pc = "L135") ~> (pc = "L188")
    /\ [][ (pc = "L166" /\ phase = "transferred"
            /\ now - f.start > f.timeoutMs)
           => pc' = "L172" ]_vars

C10_Witness ==
    /\ pc = "L172"
    /\ f.exitBy = "timeout"
    /\ f.command = PCD_TRANSMIT
    /\ f.timeoutMs = DefaultTimeoutMs

\* C11: in a call with a command other than TRANSCEIVE, the first poll of
\* the wait loop leaves the loop, whatever the chip shows and however
\* little time has passed: the call does not wait for the timer bit or for
\* timeoutMs.
C11_OtherCommandsDoNotWait ==
    [][ (/\ pc = "L166" /\ phase = "transferred"
         /\ f.command # PCD_TRANSCEIVE)
        => pc' = "L172" ]_vars

\* a register read of communicateWithPICC is on the bus, addressed to reg
CommReads(reg) ==
    /\ pc \in CommLabels
    /\ rw.fn = "readRegister"
    /\ FrameReg(rw.address) = reg

\* C12 as stated (its second half): a call with a command other than
\* TRANSCEIVE never reads the FIFO level register or the FIFO data register.
C12_OtherCommandsNeverReadFifo ==
    f.command # PCD_TRANSCEIVE
    => ~(CommReads(FIFOLevelReg) \/ CommReads(FIFODataReg))

\* C12 as amended: a successful TRANSCEIVE call returns as many bytes as the
\* value it read from the FIFO level register after validation, each the
\* value of one read of the FIFO data register, in read order, and the
\* control register value masked to its low 3 bits (0..7); a call with
\* another command reads the FIFO level register only in the flush of the
\* arm step (line 150), never the FIFO data register, and on success
\* returns [] and 0.
C12_Drain ==
    /\ [][ (pc = "L180" /\ phase = "transferred")
           => (f'.fifoLevel = miso /\ f'.backData = <<>>) ]_vars
    /\ [][ (pc = "L181" /\ phase = "transferred")
           => f'.backData = Append(f.backData, miso) ]_vars
    /\ [][ (pc = "L184" /\ phase = "transferred")
           => (/\ f'.res.status
               /\ f'.res.backData = f.backData
               /\ Len(f.backData) = f.fifoLevel
               /\ f'.res.backBits = miso % 8) ]_vars
    /\ []((CommReturned /\ f.command = PCD_TRANSCEIVE /\ f.res.status)
            => /\ Len(f.res.backData) = f.fifoLevel
               /\ f.res.backBits \in 0..7)
    /\ [](CommReads(FIFOLevelReg)
            => pc = "L150" \/ (pc = "L180" /\ f.command = PCD_TRANSCEIVE))
    /\ [](CommReads(FIFODataReg)
            => pc = "L181" /\ f.command = PCD_TRANSCEIVE)
    /\ []((CommReturned /\ f.command # PCD_TRANSCEIVE /\ f.res.status)
            => f.res.backData = <<>> /\ f.res.backBits = 0)

C12_Witness ==
    /\ CommReturned
    /\ f.command = PCD_TRANSCEIVE
    /\ f.res.status
    /\ f.fifoLevel = 5
    /\ f.res.backData = <<165, 0, 0, 165, 165>>
    /\ f.res.backBits = 7

\* the register writes of the arm, load and issue steps of one call, and the
\* write that clears the start-send bit, as Logged records them; of a write
\* to BitFramingReg only bit 7 (start send) is compared
ArmWrites(command) ==
    << <<CommIEnReg, IF command = PCD_TRANSCEIVE THEN 247 ELSE 146>>,
       <<CommIrqReg, 0>>,
       <<FIFOLevelReg, 128>>,
       <<CommandReg, PCD_IDLE>> >>
LoadWrites(sendData) == [n \in 1..Len(sendData) |-> <<FIFODataReg, sendData[n]>>]
IssueWrites(command) ==
    << <<CommandReg, command>> >>
    \o (IF command = PCD_TRANSCEIVE THEN << <<BitFramingReg, 128>> >> ELSE <<>>)
StartSendOnly(w) ==
    [n \in 1..Len(w) |->
        IF w[n][1] = BitFramingReg
        THEN <<BitFramingReg, BitAnd(w[n][2], 128)>> ELSE w[n]]
IsPrefix(s, t) == Len(s) <= Len(t) /\ s = SubSeq(t, 1, Len(s))

\* C13: in every call the writes come in this order: interrupt enable,
\* interrupt-request clear, FIFO flush, IDLE to the command register; then
\* every send byte to the FIFO, in order; then the command code to the
\* command register; then, only for TRANSCEIVE, the start-send bit.  The
\* load starts with all four arm writes made, the command is written with
\* every send byte loaded, and the wait loop starts with the issue made.
C13_StepOrdering ==
    LET before == ArmWrites(f.command) \o LoadWrites(f.sendData)
                     \o IssueWrites(f.command)
        w      == StartSendOnly(wlog)
    IN  /\ pc \in (CommLabels \ {"L135"}) \cup {"L188", "L225", "L239", "L247", "L277"}
           => IsPrefix(w, before \o << <<BitFramingReg, 0>> >>)
        /\ pc = "L153"
           => w = ArmWrites(f.command) \o SubSeq(LoadWrites(f.sendData), 1, f.i)
        /\ (pc = "L157" /\ phase = "idle")
           => w = ArmWrites(f.command) \o LoadWrites(f.sendData)
        /\ (pc = "L166")
           => w = before

C13_Witness ==
    /\ op = "readUID" /\ pc = "L166"
    /\ wlog = << <<CommIEnReg, 247>>, <<CommIrqReg, 0>>, <<FIFOLevelReg, 128>>,
                 <<CommandReg, PCD_IDLE>>, <<FIFODataReg, PICC_ANTICOLL>>,
                 <<FIFODataReg, 32>>, <<CommandReg, PCD_TRANSCEIVE>>,
                 <<BitFramingReg, 128>> >>

\* C14: when communicateWithPICC returns, by either return statement and
\* whatever ended the wait loop, its last register write was a write to
\* BitFramingReg with bit 7 (start send) clear, made after the command was
\* issued and the wait loop left, and the register holds a value with that
\* bit clear; the register is written inside a call only when the bit is
\* set (line 159) and when it is cleared (line 172).
C14_ClearTrigger ==
    /\ [](CommReturned
            => /\ Len(wlog) = Len(ArmWrites(f.command)) + Len(f.sendData)
                                + Len(IssueWrites(f.command)) + 1
               /\ wlog[Len(wlog)][1] = BitFramingReg
               /\ ~BitSet(wlog[Len(wlog)][2], 7)
               /\ ~BitSet(chip[BitFramingReg], 7)
               /\ f.exitBy \in {"waitIRq", "timer", "timeout"})
    /\ [][ (/\ pc \in CommLabels /\ phase = "addressed"
            /\ rw.fn = "writeRegister" /\ rw.addr = BitFramingReg)
           => \/ pc = "L159" /\ BitSet(rw.val, 7)
              \/ pc = "L172" /\ ~BitSet(rw.val, 7) ]_vars
    /\ [](pc \in {"idle", "done"} => ~BitSet(chip[BitFramingReg], 7))

C14_Witness ==
    /\ CommReturned
    /\ f.command = PCD_TRANSCEIVE
    /\ f.exitBy = "timer"
    /\ f.res.status = FALSE
    /\ wlog[Len(wlog) - 1] = <<BitFramingReg, 135>>
    /\ wlog[Len(wlog)] = <<BitFramingReg, 7>>
    /\ chip[BitFramingReg] = 7

\* the TxLastBits field (bits 0..2) of a BitFramingReg value
LastBits(v) == v % 8

\* C15: in readUID, the REQUEST_IDLE call of communicateWithPICC runs from
\* its first statement to its return with BitFramingReg holding 7 in its low
\* 3 bits, written by readUID before the call; the ANTICOLLISION call is
\* entered only after the REQUEST call returned success with a response, and
\* runs from its first statement (so before its first byte is loaded and
\* before it is issued) to its return with the low 3 bits 0, written by
\* readUID after the REQUEST check.
C15_FramingBeforeEachFrame ==
    /\ []((op = "readUID" /\ pc \in CommLabels /\ f.retTo = "L239")
            => /\ f.sendData = <<PICC_REQIDL>>
               /\ LastBits(chip[BitFramingReg]) = 7)
    /\ []((op = "readUID" /\ pc \in CommLabels /\ f.retTo = "L247")
            => /\ f.sendData = <<PICC_ANTICOLL, 32>>
               /\ LastBits(chip[BitFramingReg]) = 0)
    /\ [][ (op = "readUID" /\ pc = "L235" /\ phase = "addressed")
           => (rw.addr = BitFramingReg /\ rw.val = 7) ]_vars
    /\ [][ (op = "readUID" /\ pc = "L244" /\ phase = "addressed")
           => (rw.addr = BitFramingReg /\ rw.val = 0) ]_vars
    /\ [][ (op = "readUID" /\ pc' = "L244" /\ pc # "L244")
           => (pc = "L239" /\ f.res.status /\ f.res.backData # <<>>) ]_vars

C15_Witness ==
    /\ op = "readUID" /\ pc = "L166"
    /\ f.retTo = "L247"
    /\ chip[BitFramingReg] = 128
    /\ wlog[5] = <<FIFODataReg, PICC_ANTICOLL>>

\* C16: readUID, once its REQUEST step has succeeded, returns "" when the
\* ANTICOLLISION call returned failure or fewer than 5 bytes and a non-empty
\* identifier otherwise; it returns a non-empty identifier only after an
\* ANTICOLLISION call that returned success with at least 5 bytes.
C16_AnticollisionFailureIsNotFound ==
    /\ (op = "readUID" /\ pc = "done" /\ f.retTo = "L247")
       => (ret = String(<<>>) <=> (~f.res.status \/ Len(f.res.backData) < 5))
    /\ (op = "readUID" /\ pc = "done" /\ ret # String(<<>>))
       => (f.retTo = "L247" /\ f.res.status /\ Len(f.res.backData) >= 5)

C16_Witness ==
    /\ op = "readUID" /\ pc = "done"
    /\ f.retTo = "L247"
    /\ f.res.status /\ Len(f.res.backData) = 4
    /\ ret = String(<<>>)

\* the seven register writes of lines 205-211, in order
InitWrites ==
    << <<CommandReg, PCD_RESETPHASE>>, <<TModeReg, 141>>, <<TPrescalerReg, 62>>,
       <<TReloadRegL, 30>>, <<TReloadRegH, 0>>, <<TxAutoReg, 64>>,
       <<ModeReg, 61>> >>

\* C17: init() sets the bus clock before its first register write; writes
\* the soft reset to the command register, then the timer and modulation
\* registers; then reads the transmit-control register and writes value|0x03
\* to it exactly when the value read has not both low bits set; the chip is
\* marked initialized only by init(), after all of these, and is never
\* marked uninitialized again.
C17_InitOrder ==
    /\ [][ (op = "init" /\ pc = "L199") => (spiFreq' = SpiHz /\ wlog = <<>>) ]_vars
    /\ []((op = "init" /\ pc \notin {"L199", "idle"}) => spiFreq = SpiHz)
    /\ []((op = "init" /\ Len(wlog) <= 7) => IsPrefix(wlog, InitWrites))
    /\ []((op = "init" /\ pc \in {"L91", "L93"}) => wlog = InitWrites)
    /\ [][ (op = "init" /\ pc = "L91" /\ phase = "transferred")
           => IF miso % 4 # 3
              THEN pc' = "L93" /\ f'.val = miso /\ miso = chip[TxControlReg]
              ELSE pc' = "L213" ]_vars
    /\ [][ (op = "init" /\ pc = "L93" /\ phase = "addressed")
           => (/\ rw.addr = TxControlReg
               /\ rw.val = chip[TxControlReg] + (3 - (chip[TxControlReg] % 4))) ]_vars
    /\ []((op = "init" /\ pc \in {"L213", "done"})
            => /\ SubSeq(wlog, 1, 7) = InitWrites
               /\ Len(wlog) \in {7, 8}
               /\ Len(wlog) = 8 => wlog[8] = <<TxControlReg, chip[TxControlReg]>>
               /\ chip[TxControlReg] % 4 = 3)
    /\ [][ (~initialized /\ initialized') => (op = "init" /\ pc = "L213") ]_vars
    /\ [][ initialized => initialized' ]_vars

C17_Witness ==
    /\ op = "init" /\ pc = "done"
    /\ initialized
    /\ lastInit = <<>>
    /\ Len(wlog) = 8
    /\ wlog[8] = <<TxControlReg, 131>>

\* the value a helper is to write back, from the value it read
Modified(tmp) ==
    IF op = "setBitMask" THEN BitOr(tmp, f.wval) ELSE tmp - BitAnd(tmp, f.wval)

\* C18: setBitMask and clearBitMask make two bus transactions, a read and a
\* write, with chip-select released in between; the value written is
\* computed from the value read.  With no other writer the value read is
\* still the register's value when it is written back, so the write is
\* (current value OR mask) resp. (current value AND NOT mask).  When a
\* second context writes the register in between, the helper's write
\* replaces that value with one computed from the earlier read.
C18_ReadModifyWrite ==
    /\ []((rmw.at = "write" /\ phase = "idle") => (cs = 1 /\ pc \in {"L81", "L86"}))
    /\ [][ (rmw.at = "write" /\ phase = "addressed")
           => (/\ rw.fn = "writeRegister" /\ rw.addr = f.addr
               /\ rw.val = Modified(rmw.tmp)
               /\ chip'[f.addr] = Modified(rmw.tmp)) ]_vars
    /\ []((rmw.at = "write" /\ phase \in {"idle", "selected", "addressed"}
              /\ ~f.raced)
            => /\ rmw.tmp = chip[f.addr]
               /\ phase = "addressed" => rw.val = Modified(chip[f.addr]))
    /\ []((rmw.at = "write" /\ phase \in {"idle", "selected", "addressed"}
              /\ f.raced)
            => chip[f.addr] = f.racedVal)
    /\ []((rmw.at = "write" /\ phase = "transferred")
            => chip[f.addr] = Modified(rmw.tmp))

C18_Witness ==
    /\ pc = "done" /\ op = "setBitMask"
    /\ f.addr = TxControlReg /\ f.wval = 3
    /\ f.raced /\ f.racedVal = 90
    /\ chip[TxControlReg] = 131
    /\ chip[TxControlReg] # BitOr(f.racedVal, f.wval)

\* C19: whenever haltTag has its HALT frame issued in TRANSCEIVE mode (the
\* command written, the start-send bit being set, the wait loop running),
\* the value last written to BitFramingReg has its low 3 bits 0.
C19_HaltFrameByteAligned ==
    (op = "haltTag" /\ pc \in {"L159", "L163", "L166"})
    => LastBits(chip[BitFramingReg]) = 0

\* C20: tagPresent does not return true after a REQUEST_IDLE transceive
\* whose wait loop ended on the software timeout with the chip showing no
\* wait flag (0x30) in any poll.
C20_PresentOnlyAfterWaitFlag ==
    (op = "tagPresent" /\ pc = "done" /\ f.exitBy = "timeout" /\ f.quiet)
    => ret = Boolean(FALSE)

====
